---------------------------- MODULE Spec2Model ----------------------------
(***************************************************************************)
(* PrintBox: a parametric box-grid designer.  The model covers the box     *)
(* builder (createBox), the constraint resolution of the control panel     *)
(* (updateGrid and the input handlers of the ThreeScene component), the    *)
(* grid populator (createCubesForGrid), the STL exporter and the batch     *)
(* packager.                                                               *)
(*                                                                         *)
(* Numbers.  A JavaScript number is modelled as an exact rational <<n, d>> *)
(* in lowest terms with d >= 1.  The inputs of the model are chosen so     *)
(* that the double-precision results of the program agree with the exact   *)
(* results at every floor, round and comparison.  The value `undefined'    *)
(* of an optional number is <<0, 0>>.                                      *)
(***************************************************************************)
EXTENDS Integers, Sequences, FiniteSets, TLC

VARIABLES
    \* ---- the ThreeScene component (src/unnamed/part_000)
    gridSettings,       \* useState<GridSettings>: the applied settings
    inputs,             \* useState: the text shown in each input field
    maxWallThickness,   \* useState: the published wall-thickness maximum
    cubeChildren,       \* cubeRef.current.children: the solids in the scene
    cubesRef,           \* cubesRef.current: the solids tracked by the component
    lastClear,          \* what the last createCubesForGrid call removed/disposed
    undisposed,         \* some geometry of a removed solid was never disposed
    events,             \* number of user events handled so far
    \* ---- one call of createBox (src/app/components/Scene3DWrapper.tsx)
    boxArgs,            \* the arguments of the call
    boxOut,             \* <<>> before the call, <<group>> after it
    \* ---- the re-orientation for export (src/app/utils/exportUtils.ts)
    exportObject,       \* the solid handed to createOrientedObjectForExport
    exportGroup,        \* <<>> before the call, <<export group>> after it
    \* ---- the STL writers (src/app/utils/exportUtils.ts)
    stlObject,          \* the meshes handed to exportToSTL
    stlBinary,          \* <<>>, or <<what generateBinarySTL returned>>
    stlASCII,           \* <<>>, or <<what generateASCIISTL returned>>
    \* ---- the batch packager (spec.md, section 4.5)
    batchSolids,        \* the solids handed to the packager
    batchArchive,       \* <<>> before packaging, <<archive>> after it
    \* ---- one generation of the grid (src/unnamed/part_000)
    gridRequest,        \* the settings the generation is asked for
    gridApplied,        \* <<>> before it, <<the settings the boxes were built from>>
    gridBoxes,          \* the array createCubesForGrid returned, box by box
    \* ---- the earlier ThreeScene component (ThreeScene.tsx, lines 1837-2261)
    earlierSettings,    \* useState: its gridSettings
    earlierChildren,    \* cubeRef.current.children: the solids in its scene
    earlierCubesRef,    \* cubesRef.current
    earlierTimers,      \* the pending setTimeout callbacks, oldest first
    earlierEvents       \* number of change events handled so far

uiVars     == <<gridSettings, inputs, maxWallThickness, cubeChildren, cubesRef,
                lastClear, undisposed, events>>
boxVars    == <<boxArgs, boxOut>>
exportVars == <<exportObject, exportGroup>>
stlVars    == <<stlObject, stlBinary, stlASCII>>
batchVars  == <<batchSolids, batchArchive>>
gridVars   == <<gridRequest, gridApplied, gridBoxes>>
earlierVars == <<earlierSettings, earlierChildren, earlierCubesRef, earlierTimers,
                 earlierEvents>>
vars       == <<uiVars, boxVars, exportVars, stlVars, batchVars, gridVars, earlierVars>>

-----------------------------------------------------------------------------
(* Exact rational arithmetic standing for JavaScript's number operations.  *)

RECURSIVE GCD(_, _)
GCD(a, b) == IF b = 0 THEN a ELSE GCD(b, a % b)

Abs(a) == IF a < 0 THEN -a ELSE a

\* n/d in lowest terms (d > 0).
Q(n, d) == LET g == GCD(Abs(n), d) IN <<n \div g, d \div g>>

\* The integer n as a number.
R(n) == <<n, 1>>

undefined == <<0, 0>>

Add(a, b) == Q(a[1] * b[2] + b[1] * a[2], a[2] * b[2])
Sub(a, b) == Q(a[1] * b[2] - b[1] * a[2], a[2] * b[2])
Mul(a, b) == Q(a[1] * b[1], a[2] * b[2])
Neg(a)    == <<-a[1], a[2]>>
\* a / b for b > 0 (every divisor of the program is a positive count or constant).
Div(a, b) == Q(a[1] * b[2], a[2] * b[1])

Lt(a, b) == a[1] * b[2] < b[1] * a[2]
Le(a, b) == a[1] * b[2] <= b[1] * a[2]

MathMin(a, b) == IF Le(a, b) THEN a ELSE b
MathMax(a, b) == IF Le(a, b) THEN b ELSE a
MathFloor(a)  == R(a[1] \div a[2])
\* Math.round rounds half up: floor(a + 1/2).
MathRound(a)  == R((2 * a[1] + a[2]) \div (2 * a[2]))
IsInteger(a)  == a[2] = 1

-----------------------------------------------------------------------------
(* createBox: src/app/components/Scene3DWrapper.tsx, lines 29-289.         *)

\* A resolution that stops after the rounding of line 56 and leaves out the
\* cap of line 59.
createBox_thickness_uncapped(width, height, depth, wallThickness) ==
    LET calculatedThickness == Mul(MathMin(MathMin(width, height), depth), Q(5, 100))
        t0 == IF wallThickness # undefined THEN wallThickness ELSE calculatedThickness
    IN  MathRound(MathMax(t0, R(2)))

\* Lines 41-59: the wall thickness the builder uses.
createBox_thickness(width, height, depth, wallThickness) ==
    LET calculatedMax         == Div(MathMin(width, depth), R(3))
        maxAllowableThickness == MathMin(calculatedMax, R(20))
        calculatedThickness   == Mul(MathMin(MathMin(width, height), depth), Q(5, 100))
        t0 == IF wallThickness # undefined THEN wallThickness ELSE calculatedThickness
        t1 == MathMax(t0, R(2))
        t2 == MathRound(t1)
    IN  MathMin(t2, MathFloor(maxAllowableThickness))

\* A builder that flags nothing.
createBox_color_alwaysGreen(width, height, depth, thickness) == "green"

\* Lines 61-78: the colour that flags the solid as printable or not.
createBox_color(width, height, depth, thickness) ==
    LET maxAllowableThickness == MathMin(Div(MathMin(width, depth), R(3)), R(20))
        exceedsPrinterBed == Lt(R(200), width) \/ Lt(R(200), height) \/ Lt(R(200), depth)
        wallTooThin       == Lt(thickness, R(2))
        wallTooThick      == Lt(maxAllowableThickness, thickness)
    IN  IF exceedsPrinterBed \/ wallTooThin \/ wallTooThick THEN "red" ELSE "green"

\* A builder that uses the requested corner radius as it comes.
createBox_effectiveRadius_asRequested(width, depth, borderRadius) == borderRadius

\* Lines 88-94: the corner radius the builder uses.
createBox_effectiveRadius(width, depth, borderRadius) ==
    LET smallestDimension == Div(MathMin(width, depth), R(2))
        safeMaxRadius     == Mul(smallestDimension, Q(9, 10))
    IN  MathMin(borderRadius, safeMaxRadius)

\* A mesh of the solid: its geometry's own extent (lo, hi per axis), whether
\* the mesh is rotated by -90 degrees about X (an extrusion stood upright),
\* and its position inside the group.
Mesh(name, kind, lo, hi, rotated, position) ==
    [name |-> name, kind |-> kind, lo |-> lo, hi |-> hi,
     rotated |-> rotated, position |-> position]

Half(a) == Div(a, R(2))
Zero == R(0)

\* new THREE.BoxGeometry(w, h, d): centred on the origin.
BoxGeometry(name, w, h, d, position) ==
    Mesh(name, "Box", <<Neg(Half(w)), Neg(Half(h)), Neg(Half(d))>>,
         <<Half(w), Half(h), Half(d)>>, FALSE, position)

\* new THREE.ExtrudeGeometry(shape, {depth}): the profile spans w by d about
\* the origin of the XY plane and is extruded from z = 0 to z = depth.
ExtrudeGeometry(name, w, d, depth, position) ==
    Mesh(name, "Extrude", <<Neg(Half(w)), Neg(Half(d)), Zero>>,
         <<Half(w), Half(d), depth>>, TRUE, position)

\* new THREE.CylinderGeometry(r, r, h, 24): axis along Y, centred.
CylinderGeometry(name, r, h, position) ==
    Mesh(name, "Cylinder", <<Neg(r), Neg(Half(h)), Neg(r)>>,
         <<r, Half(h), r>>, FALSE, position)

\* A builder whose wall ring starts at the base of the floor, not on top of it.
createBox_body_wallsFromBase(width, height, depth, thickness, effectiveRadius) ==
    << ExtrudeGeometry("floor", width, depth, thickness,
                       <<Zero, Neg(Half(height)), Zero>>),
       ExtrudeGeometry("walls", width, depth, Sub(height, thickness),
                       <<Zero, Neg(Half(height)), Zero>>) >>

\* A builder with the rectilinear body only.
createBox_body_rectilinear(width, height, depth, thickness, effectiveRadius) ==
    << BoxGeometry("bottom", width, thickness, depth,
                   <<Zero, Add(Neg(Half(height)), Half(thickness)), Zero>>),
       BoxGeometry("leftWall", thickness, height, depth,
                   <<Add(Neg(Half(width)), Half(thickness)), Zero, Zero>>),
       BoxGeometry("rightWall", thickness, height, depth,
                   <<Sub(Half(width), Half(thickness)), Zero, Zero>>),
       BoxGeometry("frontWall", Sub(width, Mul(R(2), thickness)), height, thickness,
                   <<Zero, Zero, Sub(Half(depth), Half(thickness))>>),
       BoxGeometry("backWall", Sub(width, Mul(R(2), thickness)), height, thickness,
                   <<Zero, Zero, Add(Neg(Half(depth)), Half(thickness))>>) >>

\* Lines 102-223: the body of the solid, by topology.
createBox_body(width, height, depth, thickness, effectiveRadius) ==
    IF Le(effectiveRadius, Zero)
    THEN << BoxGeometry("bottom", width, thickness, depth,
                        <<Zero, Add(Neg(Half(height)), Half(thickness)), Zero>>),
            BoxGeometry("leftWall", thickness, height, depth,
                        <<Add(Neg(Half(width)), Half(thickness)), Zero, Zero>>),
            BoxGeometry("rightWall", thickness, height, depth,
                        <<Sub(Half(width), Half(thickness)), Zero, Zero>>),
            BoxGeometry("frontWall", Sub(width, Mul(R(2), thickness)), height, thickness,
                        <<Zero, Zero, Sub(Half(depth), Half(thickness))>>),
            BoxGeometry("backWall", Sub(width, Mul(R(2), thickness)), height, thickness,
                        <<Zero, Zero, Add(Neg(Half(depth)), Half(thickness))>>) >>
    ELSE << ExtrudeGeometry("floor", width, depth, thickness,
                            <<Zero, Neg(Half(height)), Zero>>),
            ExtrudeGeometry("walls", width, depth, Sub(height, thickness),
                            <<Zero, Add(Neg(Half(height)), thickness), Zero>>) >>

\* A builder that chooses the cylinder for feet of at most 10 mm by 10 mm.
createBox_foot_bySize(width, height, depth, thickness, showFoot) ==
    LET footHeight == IF showFoot THEN Mul(thickness, Q(3, 2)) ELSE Zero
        footWidth  == IF showFoot THEN Sub(Sub(width, Mul(R(2), thickness)), R(1)) ELSE Zero
        footDepth  == IF showFoot THEN Sub(Sub(depth, Mul(R(2), thickness)), R(1)) ELSE Zero
    IN  IF showFoot /\ Lt(Zero, footHeight)
        THEN IF Le(footWidth, R(10)) /\ Le(footDepth, R(10))
             THEN << CylinderGeometry("foot", Half(MathMin(footWidth, footDepth)), footHeight,
                                      <<Zero, Sub(Neg(Half(height)), Half(footHeight)), Zero>>) >>
             ELSE << ExtrudeGeometry("foot", footWidth, footDepth, footHeight,
                                     <<Zero, Sub(Neg(Half(height)), footHeight), Zero>>) >>
        ELSE << >>

\* A builder whose foot is always the extruded rounded rectangle.
createBox_foot_extruded(width, height, depth, thickness, showFoot) ==
    LET footHeight == IF showFoot THEN Mul(thickness, Q(3, 2)) ELSE Zero
        footWidth  == IF showFoot THEN Sub(Sub(width, Mul(R(2), thickness)), R(1)) ELSE Zero
        footDepth  == IF showFoot THEN Sub(Sub(depth, Mul(R(2), thickness)), R(1)) ELSE Zero
    IN  IF showFoot /\ Lt(Zero, footHeight)
        THEN << ExtrudeGeometry("foot", footWidth, footDepth, footHeight,
                                <<Zero, Sub(Neg(Half(height)), footHeight), Zero>>) >>
        ELSE << >>

\* Lines 96-100 and 225-283: the optional foot.
createBox_foot(width, height, depth, thickness, showFoot) ==
    LET footHeight == IF showFoot THEN Mul(thickness, Q(3, 2)) ELSE Zero
        footWidth  == IF showFoot THEN Sub(Sub(width, Mul(R(2), thickness)), R(1)) ELSE Zero
        footDepth  == IF showFoot THEN Sub(Sub(depth, Mul(R(2), thickness)), R(1)) ELSE Zero
        footCornerRadius == Half(MathMin(footWidth, footDepth))
        adjustedFootWidth == MathMax(footWidth, Mul(footCornerRadius, R(2)))
        adjustedFootDepth == MathMax(footDepth, Mul(footCornerRadius, R(2)))
    IN  IF showFoot /\ Lt(Zero, footHeight)
        THEN IF Le(footWidth, Mul(footCornerRadius, R(2)))
                /\ Le(footDepth, Mul(footCornerRadius, R(2)))
             THEN << CylinderGeometry("foot", Half(MathMin(footWidth, footDepth)), footHeight,
                                      <<Zero, Sub(Neg(Half(height)), Half(footHeight)), Zero>>) >>
             ELSE << ExtrudeGeometry("foot", adjustedFootWidth, adjustedFootDepth, footHeight,
                                     <<Zero, Sub(Neg(Half(height)), footHeight), Zero>>) >>
        ELSE << >>

\* Lines 136-173: the profile the wall ring is extruded from on the rounded
\* path, a rounded rectangle with its list of holes.  The hole is pushed only
\* if the inner width and depth are both above zero.  No profile is drawn on
\* the rectilinear path.
createBox_shapes(width, depth, thickness, effectiveRadius) ==
    LET innerWidth  == Sub(width, Mul(R(2), thickness))
        innerDepth  == Sub(depth, Mul(R(2), thickness))
        innerWidthProportion == Div(innerWidth, width)
        innerDepthProportion == Div(innerDepth, depth)
        scaleFactor == MathMin(innerWidthProportion, innerDepthProportion)
        innerRadius == MathMax(Zero, Mul(Mul(effectiveRadius, scaleFactor), Q(9, 10)))
    IN  IF Le(effectiveRadius, Zero)
        THEN << >>
        ELSE << [ width |-> width, depth |-> depth, radius |-> effectiveRadius,
                  holes |-> IF Lt(Zero, innerWidth) /\ Lt(Zero, innerDepth)
                            THEN << [ width |-> innerWidth, depth |-> innerDepth,
                                      radius |-> innerRadius ] >>
                            ELSE << >> ] >>

\* The returned THREE.Group.
createBox(x, y, z, width, height, depth, wallThickness, borderRadius, showFoot) ==
    LET thickness       == createBox_thickness(width, height, depth, wallThickness)
        effectiveRadius == createBox_effectiveRadius(width, depth, borderRadius)
    IN  [ type      |-> "Group",
          userData  |-> [isBox |-> TRUE,
                         dimensions |-> [width |-> width, height |-> height, depth |-> depth],
                         borderRadius |-> borderRadius],
          thickness |-> thickness,
          color     |-> createBox_color(width, height, depth, thickness),
          effectiveRadius |-> effectiveRadius,
          shapes    |-> createBox_shapes(width, depth, thickness, effectiveRadius),
          children  |-> createBox_body(width, height, depth, thickness, effectiveRadius)
                        \o createBox_foot(width, height, depth, thickness, showFoot),
          position  |-> <<x, y, z>> ]

-----------------------------------------------------------------------------
(* calculateMaxSafeBorderRadius: Scene3DWrapper.tsx, lines 305-315.        *)

calculateMaxSafeBorderRadius(width, depth, wallThickness) ==
    LET smallestDimension == Div(MathMin(width, depth), R(2))
        safeMaxRadius     == MathMax(Zero, Sub(Mul(smallestDimension, Q(9, 10)), wallThickness))
    IN  MathFloor(safeMaxRadius)

-----------------------------------------------------------------------------
(* Field texts.  A text is a record: isNum says whether parseFloat yields  *)
(* a number, v is that number, and s is what the text holds besides the    *)
(* canonical digits of v ("" for the text Number.toString gives).          *)

Num(v)    == [isNum |-> TRUE, v |-> v, s |-> ""]
Raw(s)    == [isNum |-> FALSE, v |-> Zero, s |-> s]
\* A numeric text that is not what toString prints, such as "10.0".
NumAs(v, s) == [isNum |-> TRUE, v |-> v, s |-> s]

parseFloat(text) == text.v
isNaNText(text)  == ~text.isNum      \* isNaN(parseFloat(text)); covers "" and "-"
toString(v)      == Num(v)

Fields == {"width", "length", "height", "horizontalDivisions", "verticalDivisions",
           "bufferSize", "wallThickness", "borderRadius"}

-----------------------------------------------------------------------------
(* The grid populator: src/unnamed/part_000, lines 143-226.                *)
(*                                                                         *)
(* All boxes one call builds differ only in their position, so the         *)
(* children of the box group are kept as the list of the settings whose    *)
(* boxes are in the group, in order of insertion: the group's children are *)
(* the boxes of the first settings, then those of the second, and so on.   *)

\* for (let i = 0; i < n; i++): the number of iterations, ceil(n) for n > 0.
LoopCount(n) == IF Le(n, Zero) THEN 0 ELSE -((-n[1]) \div n[2])

\* A populator that takes the buffer off each axis once, not on both sides.
createCubesForGrid_box_oneBuffer(settings, x, y, z) ==
    LET xCellSize  == Div(settings.width, settings.horizontalDivisions)
        zCellSize  == Div(settings.length, settings.horizontalDivisions)
        yCellSize  == Div(settings.height, settings.verticalDivisions)
        xPos == Sub(Mul(Add(R(x), Q(1, 2)), xCellSize), Half(settings.width))
        yPos == Mul(Add(R(y), Q(1, 2)), yCellSize)
        zPos == Sub(Mul(Add(R(z), Q(1, 2)), zCellSize), Half(settings.length))
    IN  createBox(xPos, yPos, zPos, Sub(xCellSize, settings.bufferSize),
                  Sub(yCellSize, settings.bufferSize), Sub(zCellSize, settings.bufferSize),
                  settings.wallThickness, settings.borderRadius, settings.showFoot)

\* Lines 178-216: the box of cell (x, y, z).
createCubesForGrid_box(settings, x, y, z) ==
    LET xCellSize  == Div(settings.width, settings.horizontalDivisions)
        zCellSize  == Div(settings.length, settings.horizontalDivisions)
        yCellSize  == Div(settings.height, settings.verticalDivisions)
        halfWidth  == Half(settings.width)
        halfLength == Half(settings.length)
        footHeight == IF settings.showFoot THEN Mul(settings.wallThickness, Q(3, 2)) ELSE Zero
        footScaleFactor == IF settings.showFoot THEN Q(9, 10) ELSE R(1)
        boxWidth   == Mul(Sub(xCellSize, Mul(R(2), settings.bufferSize)), footScaleFactor)
        boxHeight  == Mul(Sub(yCellSize, Mul(R(2), settings.bufferSize)), footScaleFactor)
        boxDepth   == Mul(Sub(zCellSize, Mul(R(2), settings.bufferSize)), footScaleFactor)
        xPos == Sub(Mul(Add(R(x), Q(1, 2)), xCellSize), halfWidth)
        yPos == Add(Mul(Add(R(y), Q(1, 2)), yCellSize),
                    IF settings.showFoot THEN Half(footHeight) ELSE Zero)
        zPos == Sub(Mul(Add(R(z), Q(1, 2)), zCellSize), halfLength)
    IN  createBox(xPos, yPos, zPos, boxWidth, boxHeight, boxDepth,
                  settings.wallThickness, settings.borderRadius, settings.showFoot)

\* Lines 189-191: the number of boxes one call builds.
createCubesForGrid_count(settings) ==
    LoopCount(settings.verticalDivisions) * LoopCount(settings.horizontalDivisions)
        * LoopCount(settings.horizontalDivisions)

\* Lines 145-164, one pass of the clearing loop over `count' equal children:
\* the geometries the removed children hold, and those the loop disposes.  The
\* loop looks at the direct children of the box group only, and disposes the
\* geometry of a child only when the child itself is a THREE.Mesh.
createCubesForGrid_remove(count, child) ==
    [geometries |-> count * Len(child.children),
     disposed   |-> IF child.type = "Mesh" THEN count ELSE 0]

\* Lines 145-164: the clearing loop over all children, from the i-th on.
RECURSIVE createCubesForGrid_clear(_, _)
createCubesForGrid_clear(children, i) ==
    IF i > Len(children)
    THEN [geometries |-> 0, disposed |-> 0]
    ELSE LET one  == createCubesForGrid_remove(
                         createCubesForGrid_count(children[i]),
                         createCubesForGrid_box(children[i], 0, 0, 0))
             rest == createCubesForGrid_clear(children, i + 1)
         IN  [geometries |-> one.geometries + rest.geometries,
              disposed   |-> one.disposed + rest.disposed]

\* A populator whose innermost loop builds the box of the first row each time.
createCubesForGrid_boxes_firstRow(settings) ==
    LET H == LoopCount(settings.horizontalDivisions)
    IN  [ k \in 1 .. createCubesForGrid_count(settings) |->
              createCubesForGrid_box(settings, ((k - 1) \div H) % H, (k - 1) \div (H * H), 0) ]

\* Lines 189-221: the boxes one call builds, in the order of the loops (y
\* outermost, then x, then z): the k-th box is that of cell
\* (x, y, z) with k - 1 = (y * H + x) * H + z, H the iterations of an inner loop.
createCubesForGrid_boxes(settings) ==
    LET H == LoopCount(settings.horizontalDivisions)
    IN  [ k \in 1 .. createCubesForGrid_count(settings) |->
              createCubesForGrid_box(settings, ((k - 1) \div H) % H,
                                     (k - 1) \div (H * H), (k - 1) % H) ]

\* The whole call: the group's children afterwards, the returned array, and
\* the account of the clearing loop.
createCubesForGrid(children, settings) ==
    [children     |-> << settings >>,
     createdBoxes |-> << settings >>,
     cleared      |-> createCubesForGrid_clear(children, 1)]

-----------------------------------------------------------------------------
(* The ThreeScene component: src/unnamed/part_000, lines 228-1097.  A      *)
(* handler is an operator from the component's state at the last render    *)
(* (a record st) and the event to the state after the handler's updates.   *)

\* Line 350: cubesRef.current takes the array createCubesForGrid returned,
\* and the group holds what the call left in it.
populateGridCells_assign(st, made) ==
    [st EXCEPT !.cubeChildren = made.children,
               !.cubesRef     = made.createdBoxes,
               !.lastClear    = made.cleared,
               !.undisposed   = @ \/ made.cleared.disposed < made.cleared.geometries]

\* Lines 347-351.  cubeRef is set by the mount effect and never cleared.
populateGridCells(st, settings) ==
    populateGridCells_assign(st, createCubesForGrid(st.cubeChildren, settings))

\* A resolver that always applies the maximum of the cell.
updateGrid_thickness_toMaximum(wallThickness, boxWidth, boxDepth) ==
    MathMin(MathFloor(Div(MathMin(boxWidth, boxDepth), R(3))), R(20))

\* A resolver that applies the requested thickness as it comes.
updateGrid_thickness_asRequested(wallThickness, boxWidth, boxDepth) == wallThickness

\* Lines 296-302: the wall thickness updateGrid applies.
updateGrid_thickness(wallThickness, boxWidth, boxDepth) ==
    LET calculatedMax           == MathFloor(Div(MathMin(boxWidth, boxDepth), R(3)))
        maxWallThicknessForCell == MathMin(calculatedMax, R(20))
    IN  MathMin(MathMax(MathRound(wallThickness), R(2)), maxWallThicknessForCell)

\* A resolver that applies the requested radius as it comes.
updateGrid_radius_asRequested(borderRadius, boxWidth, boxDepth, adjustedThickness) ==
    borderRadius

\* Lines 306-315: the border radius updateGrid applies, bounded by the
\* maximum for the thickness line 304 has just stored.
updateGrid_radius(borderRadius, boxWidth, boxDepth, adjustedThickness) ==
    MathMin(borderRadius, calculateMaxSafeBorderRadius(boxWidth, boxDepth, adjustedThickness))

\* Lines 283-345.  sceneRef and gridRef are set by the mount effect and never
\* cleared, so the early return of line 284 is not taken after mount.
updateGrid(st, newSettings) ==
    LET xCellSize == Div(newSettings.width, newSettings.horizontalDivisions)
        zCellSize == Div(newSettings.length, newSettings.horizontalDivisions)
        boxWidth  == Sub(xCellSize, Mul(R(2), newSettings.bufferSize))
        boxDepth  == Sub(zCellSize, Mul(R(2), newSettings.bufferSize))
        calculatedMax           == MathFloor(Div(MathMin(boxWidth, boxDepth), R(3)))
        maxWallThicknessForCell == MathMin(calculatedMax, R(20))
        adjustedThickness == updateGrid_thickness(newSettings.wallThickness, boxWidth, boxDepth)
        safeRadius == updateGrid_radius(newSettings.borderRadius, boxWidth, boxDepth,
                                        adjustedThickness)
        settingsToApply == [newSettings EXCEPT !.wallThickness = adjustedThickness,
                                               !.borderRadius  = safeRadius]
    IN  populateGridCells(
            [st EXCEPT !.maxWallThickness = maxWallThicknessForCell,
                       !.gridSettings     = settingsToApply,
                       !.inputs = [@ EXCEPT !.wallThickness = toString(adjustedThickness),
                                            !.borderRadius  = toString(safeRadius)]],
            settingsToApply)

\* A commit that keeps the text as typed.
handleInputBlur_snap_asTyped(st, property, inputValue) == inputValue

\* Lines 382-465: the text a committed value is snapped to.
handleInputBlur_snap(st, property, inputValue) ==
    LET numValue == parseFloat(inputValue)
    IN  IF property \in {"width", "length", "height"}
        THEN IF Lt(numValue, R(10)) THEN toString(R(10))
             ELSE IF Lt(R(1000), numValue) THEN toString(R(1000))
             ELSE inputValue
        ELSE IF property = "bufferSize"
        THEN IF Lt(numValue, R(1)) THEN toString(R(1))
             ELSE IF Lt(R(20), numValue) THEN toString(R(20))
             ELSE inputValue
        ELSE IF property = "borderRadius"
        THEN IF Lt(numValue, Zero) THEN toString(Zero)
             ELSE IF Lt(R(30), numValue) THEN toString(R(30))
             ELSE inputValue
        ELSE IF property = "wallThickness"
        THEN LET roundedValue == MathRound(numValue)
             IN  IF Lt(roundedValue, R(2)) THEN toString(R(2))
                 ELSE IF Lt(st.maxWallThickness, roundedValue)
                      THEN toString(st.maxWallThickness)
                 ELSE toString(roundedValue)
        ELSE IF property = "verticalDivisions"
        THEN LET intValue == MathFloor(numValue)
             IN  IF Lt(intValue, R(1)) THEN toString(R(1))
                 ELSE IF Lt(R(6), intValue) THEN toString(R(6))
                 ELSE toString(intValue)
        ELSE \* horizontalDivisions
             LET intValue == MathFloor(numValue)
             IN  IF Lt(intValue, R(1)) THEN toString(R(1))
                 ELSE IF Lt(R(16), intValue) THEN toString(R(16))
                 ELSE toString(intValue)

\* Lines 398-415: on a width or length commit, a first estimate of the
\* maximum, from the typed value and without the buffer.
handleInputBlur_estimate(st, property, numValue) ==
    LET newWidth  == IF property = "width" THEN numValue ELSE st.gridSettings.width
        newLength == IF property = "length" THEN numValue ELSE st.gridSettings.length
        newMaxThickness == MathFloor(Div(MathMin(newWidth, newLength), R(3)))
    IN  IF property \in {"width", "length"}
        THEN [st EXCEPT !.maxWallThickness = newMaxThickness,
                        !.inputs.wallThickness =
                            IF Lt(newMaxThickness, st.gridSettings.wallThickness)
                            THEN toString(newMaxThickness) ELSE @]
        ELSE st

\* Lines 476-486: newSettings was copied by updateGrid, not changed, so it
\* still holds validValue and the field keeps what updateGrid wrote.
handleInputBlur_show(st, property, newSettings, validValue) ==
    IF property \in {"wallThickness", "borderRadius"} /\ newSettings[property] # validValue
    THEN [st EXCEPT !.inputs[property] = toString(newSettings[property])]
    ELSE st

\* Lines 467-487: the field takes the snapped text, and a value above zero
\* is applied through updateGrid.
handleInputBlur_apply(st, shown, property, snappedValue) ==
    IF Lt(Zero, parseFloat(snappedValue))
    THEN handleInputBlur_show(
             updateGrid([shown EXCEPT !.inputs[property] = snappedValue],
                        [st.gridSettings EXCEPT ![property] = parseFloat(snappedValue)]),
             property,
             [st.gridSettings EXCEPT ![property] = parseFloat(snappedValue)],
             parseFloat(snappedValue))
    ELSE [shown EXCEPT !.inputs[property] = snappedValue]

\* Lines 354-488.
handleInputBlur(st, property, inputValue) ==
    IF isNaNText(inputValue)
    THEN LET defaultValue ==
                 IF property = "bufferSize" THEN toString(R(1))
                 ELSE IF property \in {"width", "length", "height"} THEN toString(R(10))
                 ELSE toString(R(1))
         IN  [st EXCEPT !.inputs[property] = defaultValue]
    ELSE handleInputBlur_apply(
             st,
             handleInputBlur_estimate(st, property, parseFloat(inputValue)),
             property,
             handleInputBlur_snap(st, property, inputValue))

\* Lines 491-519.
handleWallThicknessChange(st, inputValue) ==
    LET st1 == [st EXCEPT !.inputs.wallThickness = inputValue]
    IN  IF isNaNText(inputValue)
        THEN st1
        ELSE LET rounded  == MathRound(parseFloat(inputValue))
                 numValue == MathMax(R(2), MathMin(rounded, st.maxWallThickness))
             IN  updateGrid(st1, [st.gridSettings EXCEPT !.wallThickness = numValue])

\* Lines 540-561: the radius a keystroke in the border-radius field applies.
handleBorderRadiusChange_value(gs, inputValue) ==
    LET numValue   == MathRound(MathMax(R(1), parseFloat(inputValue)))
        cellWidth  == Sub(Div(gs.width, gs.horizontalDivisions), Mul(R(2), gs.bufferSize))
        cellDepth  == Sub(Div(gs.length, gs.horizontalDivisions), Mul(R(2), gs.bufferSize))
        maxSafeRadius == calculateMaxSafeBorderRadius(cellWidth, cellDepth, gs.wallThickness)
    IN  MathMin(numValue, maxSafeRadius)

\* Lines 523-582.  cubeRef is set by the mount effect, so line 579 holds.
handleBorderRadiusChange(st, inputValue) ==
    LET st1 == [st EXCEPT !.inputs.borderRadius = inputValue]
    IN  IF isNaNText(inputValue)
        THEN st1
        ELSE LET safeValue       == handleBorderRadiusChange_value(st.gridSettings, inputValue)
                 updatedSettings == [st.gridSettings EXCEPT !.borderRadius = safeValue]
             IN  populateGridCells(
                     [st1 EXCEPT !.gridSettings = updatedSettings,
                                 !.inputs.borderRadius = toString(safeValue)],
                     updatedSettings)

\* Lines 614-681: whether a keystroke's value is applied at once.
handleInputChange_isValid(property, validValue) ==
    IF property \in {"width", "length", "height"}
    THEN ~(Lt(validValue, R(10)) \/ Lt(R(1000), validValue))
    ELSE IF property = "bufferSize"
    THEN ~(Lt(validValue, R(1)) \/ Lt(R(20), validValue))
    ELSE IF property = "verticalDivisions"
    THEN ~(Lt(validValue, R(1)) \/ Lt(R(6), validValue) \/ ~IsInteger(validValue))
    ELSE \* horizontalDivisions
         ~(Lt(validValue, R(1)) \/ Lt(R(16), validValue) \/ ~IsInteger(validValue))

\* Lines 585-688.  The borderRadius branch of lines 631-668 is never entered:
\* line 593 has returned for that property.
handleInputChange(st, property, inputValue) ==
    IF property = "wallThickness" THEN handleWallThicknessChange(st, inputValue)
    ELSE IF property = "borderRadius" THEN handleBorderRadiusChange(st, inputValue)
    ELSE LET st1        == [st EXCEPT !.inputs[property] = inputValue]
             validValue == parseFloat(inputValue)
         IN  IF isNaNText(inputValue)
             THEN st1
             ELSE IF handleInputChange_isValid(property, validValue) /\ Lt(Zero, validValue)
             THEN updateGrid(st1, [st.gridSettings EXCEPT ![property] = validValue])
             ELSE st1

\* Lines 1029-1042: the "Add Foot to Boxes" checkbox.
handleShowFootChange(st, checked) ==
    LET updatedSettings == [st.gridSettings EXCEPT !.showFoot = checked]
    IN  populateGridCells([st EXCEPT !.gridSettings = updatedSettings], updatedSettings)

\* Lines 244-267 and 734-795: the state after the first render and the mount
\* effect, which publishes floor(min(width, length) / 3) and populates the grid.
Mounted ==
    LET initial == [ width |-> R(100), length |-> R(100), height |-> R(50),
                     horizontalDivisions |-> R(2), verticalDivisions |-> R(1),
                     bufferSize |-> R(1), wallThickness |-> R(2),
                     borderRadius |-> R(1), showFoot |-> FALSE ]
        minDimension == MathMin(initial.width, initial.length)
    IN  populateGridCells(
            [ gridSettings |-> initial,
              inputs |-> [ width |-> Num(R(100)), length |-> Num(R(100)),
                           height |-> Num(R(50)), horizontalDivisions |-> Num(R(2)),
                           verticalDivisions |-> Num(R(1)), bufferSize |-> Num(R(1)),
                           wallThickness |-> Num(R(2)), borderRadius |-> Num(R(1)) ],
              maxWallThickness |-> MathFloor(Div(minDimension, R(3))),
              cubeChildren |-> << >>,
              cubesRef     |-> << >>,
              lastClear    |-> [geometries |-> 0, disposed |-> 0],
              undisposed   |-> FALSE ],
            initial)

-----------------------------------------------------------------------------
(* The component as a state machine: one step per user event.              *)

\* The number of user events a run of the model handles.
MaxEvents == 3

\* The texts a user types into each field: values inside the documented
\* range, values outside it on either side, fractions, and texts that are
\* not numbers.
Typed(property) ==
    CASE property = "width"  -> {Raw(""), Num(R(5)), Num(R(10)), Num(R(2000))}
      [] property = "length" -> {Num(R(10)), NumAs(R(30), ".0")}
      [] property = "height" -> {Num(R(5)), Num(R(20))}
      [] property = "horizontalDivisions" ->
             {Num(R(1)), Num(R(3)), Num(R(16)), Num(R(17)), Num(Q(5, 2))}
      [] property = "verticalDivisions" -> {Num(R(0)), Num(R(2)), Num(R(7))}
      [] property = "bufferSize" -> {Num(Q(1, 2)), Num(R(20)), Num(R(25))}
      [] property = "wallThickness" ->
             {Raw(""), Num(Q(5, 2)), Num(R(16)), Num(R(40))}
      [] property = "borderRadius" ->
             {Raw("-"), Num(R(0)), Num(R(19)), Num(R(40))}

State ==
    [ gridSettings |-> gridSettings, inputs |-> inputs,
      maxWallThickness |-> maxWallThickness, cubeChildren |-> cubeChildren,
      cubesRef |-> cubesRef, lastClear |-> lastClear, undisposed |-> undisposed ]

Become(st) ==
    /\ gridSettings' = st.gridSettings
    /\ inputs' = st.inputs
    /\ maxWallThickness' = st.maxWallThickness
    /\ cubeChildren' = st.cubeChildren
    /\ cubesRef' = st.cubesRef
    /\ lastClear' = st.lastClear
    /\ undisposed' = st.undisposed


\* onChange of a field (lines 922-927, 946-948): the user's keystrokes leave
\* the text inputValue in the field.
Change ==
    /\ events < MaxEvents
    /\ \E property \in Fields : \E inputValue \in Typed(property) :
           Become(handleInputChange(State, property, inputValue))
    /\ events' = events + 1
    /\ UNCHANGED <<boxVars, exportVars, stlVars, batchVars, gridVars, earlierVars>>

\* onBlur of a field (lines 928-930, 949-951).  The field is a controlled
\* input (value={inputs[field]}), so the value the event carries is the text
\* the field shows.
Blur ==
    /\ events < MaxEvents
    /\ \E property \in Fields :
           Become(handleInputBlur(State, property, inputs[property]))
    /\ events' = events + 1
    /\ UNCHANGED <<boxVars, exportVars, stlVars, batchVars, gridVars, earlierVars>>

\* onChange of the checkbox (checked={gridSettings.showFoot}).
ToggleFoot ==
    /\ events < MaxEvents
    /\ Become(handleShowFootChange(State, ~gridSettings.showFoot))
    /\ events' = events + 1
    /\ UNCHANGED <<boxVars, exportVars, stlVars, batchVars, gridVars, earlierVars>>

UIInit ==
    /\ gridSettings = Mounted.gridSettings
    /\ inputs = Mounted.inputs
    /\ maxWallThickness = Mounted.maxWallThickness
    /\ cubeChildren = Mounted.cubeChildren
    /\ cubesRef = Mounted.cubesRef
    /\ lastClear = Mounted.lastClear
    /\ undisposed = Mounted.undisposed
    /\ events = 0

-----------------------------------------------------------------------------
(* One call of createBox on arguments drawn from a bounded set.            *)

\* Widths and depths (mm): below, at and above 6 mm (where a third of the
\* side reaches the 2 mm minimum), around 60 mm (where it reaches the 20 mm
\* cap) and above the 200 mm printer bed.
BoxSides == {Q(1, 2), R(3), Q(11, 2), R(6), R(7), R(49), R(60), R(66), R(201)}
BoxHeights == {R(1), R(50), R(250)}
\* Requested wall thicknesses: none, negative, zero, fractions, large.
BoxThicknesses == {undefined, R(-3), R(0), Q(5, 2), R(3), R(20), R(45)}
BoxRadii == {R(0), R(1), R(30)}

BoxIdle ==
    /\ boxArgs = [width |-> R(49), height |-> R(50), depth |-> R(49),
                  wallThickness |-> R(2), borderRadius |-> R(1), showFoot |-> FALSE]
    /\ boxOut = << >>

BoxInit ==
    /\ boxArgs \in [width : BoxSides, height : BoxHeights, depth : BoxSides,
                    wallThickness : BoxThicknesses, borderRadius : BoxRadii,
                    showFoot : BOOLEAN]
    /\ boxOut = << >>

BuildBox ==
    /\ boxOut = << >>
    /\ boxOut' = << createBox(Zero, Zero, Zero, boxArgs.width, boxArgs.height,
                              boxArgs.depth, boxArgs.wallThickness,
                              boxArgs.borderRadius, boxArgs.showFoot) >>
    /\ UNCHANGED <<boxArgs, uiVars, exportVars, stlVars, batchVars, gridVars, earlierVars>>

-----------------------------------------------------------------------------
(* The re-orientation for export: createOrientedObjectForExport.           *)
(*                                                                         *)
(* A geometry is kept as the list of the eight corners of its extent, and  *)
(* a matrix as a number of quarter turns about X followed by a             *)
(* translation: the only transformations the program composes.             *)

VAdd(a, b) == <<Add(a[1], b[1]), Add(a[2], b[2]), Add(a[3], b[3])>>

\* makeRotationX(turns * PI / 2) applied to v, for turns in {-1, 0, 1}.
RotateX(turns, v) ==
    IF turns = 0 THEN v
    ELSE IF turns = 1 THEN <<v[1], Neg(v[3]), v[2]>>
    ELSE <<v[1], v[3], Neg(v[2])>>

Matrix(turns, translation) == [turns |-> turns, translation |-> translation]
Identity == Matrix(0, <<Zero, Zero, Zero>>)

\* Vector3.applyMatrix4.
applyMatrix4(v, m) == VAdd(m.translation, RotateX(m.turns, v))

\* Matrix4.multiplyMatrices(a, b): first b, then a.
multiplyMatrices(a, b) == Matrix(a.turns + b.turns, applyMatrix4(b.translation, a))

\* The position attribute of a mesh's geometry.
Corners(mesh) ==
    << <<mesh.lo[1], mesh.lo[2], mesh.lo[3]>>, <<mesh.hi[1], mesh.lo[2], mesh.lo[3]>>,
       <<mesh.lo[1], mesh.hi[2], mesh.lo[3]>>, <<mesh.hi[1], mesh.hi[2], mesh.lo[3]>>,
       <<mesh.lo[1], mesh.lo[2], mesh.hi[3]>>, <<mesh.hi[1], mesh.lo[2], mesh.hi[3]>>,
       <<mesh.lo[1], mesh.hi[2], mesh.hi[3]>>, <<mesh.hi[1], mesh.hi[2], mesh.hi[3]>> >>

\* Object3D.updateMatrix of a mesh of the solid (rotation.x = -PI/2 for an
\* extrusion) and of the solid itself (group.position.set(x, y, z)).
updateMatrix(mesh) == Matrix(IF mesh.rotated THEN -1 ELSE 0, mesh.position)
groupMatrix(object) == Matrix(0, object.position)

\* The world position of corner j of child i of a solid, after
\* updateMatrixWorld(true).
WorldVertex(object, i, j) ==
    applyMatrix4(Corners(object.children[i])[j],
                 multiplyMatrices(groupMatrix(object), updateMatrix(object.children[i])))

\* The least of a non-empty set of numbers.
Least(S) == CHOOSE a \in S : \A b \in S : Le(a, b)

\* new THREE.Box3().setFromObject(clone).min.y
bboxMinY(object) ==
    Least({ WorldVertex(object, i, j)[2] : i \in 1..Len(object.children), j \in 1..8 })

\* exportUtils.ts, lines 22-76.  Every mesh of the clone is a direct child of
\* it, so line 59 adds the copy, with the mesh's own matrix, to the export
\* group; line 73 then sets the matrix of the export group.
createOrientedObjectForExport(object) ==
    LET bottomY         == bboxMinY(object)
        rotateXMatrix   == Matrix(1, <<Zero, Zero, Zero>>)
        translationMatrix == Matrix(0, <<Zero, Zero, Neg(bottomY)>>)
        transformMatrix == multiplyMatrices(translationMatrix, rotateXMatrix)
    IN  [ matrix   |-> transformMatrix,
          children |-> [ i \in 1..Len(object.children) |->
                           [ position |-> Corners(object.children[i]),
                             matrix   |-> updateMatrix(object.children[i]) ] ] ]

\* src/unnamed/part_001, lines 22-89: the other copy of the function bakes
\* matrixWorld, the rotation and the translation into each geometry.
createOrientedObjectForExport_baked(object) ==
    LET bottomY         == bboxMinY(object)
        rotateXMatrix   == Matrix(1, <<Zero, Zero, Zero>>)
        translationMatrix == Matrix(0, <<Zero, Zero, Neg(bottomY)>>)
    IN  [ matrix   |-> Identity,
          children |-> [ i \in 1..Len(object.children) |->
                           [ position |-> [ j \in 1..8 |->
                                 applyMatrix4(applyMatrix4(WorldVertex(object, i, j),
                                                           rotateXMatrix),
                                              translationMatrix) ],
                             matrix   |-> Identity ] ] ]

\* The world position of vertex j of child i of an export group, as the STL
\* writers see it after updateMatrixWorld(true).
ExportVertex(group, i, j) ==
    applyMatrix4(group.children[i].position[j],
                 multiplyMatrices(group.matrix, group.children[i].matrix))

\* The grids whose solids are exported, and the cells of a grid.
ExportSettings ==
    { [Mounted.gridSettings EXCEPT !.height = R(h), !.horizontalDivisions = R(hd),
                                   !.verticalDivisions = R(vd), !.borderRadius = R(br),
                                   !.showFoot = f] :
        h \in {20, 50}, hd \in {1, 2}, vd \in {1, 2}, br \in {0, 1}, f \in BOOLEAN }

ExportIdle ==
    /\ exportObject = createCubesForGrid_box(Mounted.gridSettings, 0, 0, 0)
    /\ exportGroup = << >>

ExportInit ==
    /\ \E settings \in ExportSettings :
       \E x \in 0..1, y \in 0..1, z \in 0..1 :
           /\ x < LoopCount(settings.horizontalDivisions)
           /\ y < LoopCount(settings.verticalDivisions)
           /\ z < LoopCount(settings.horizontalDivisions)
           /\ exportObject = createCubesForGrid_box(settings, x, y, z)
    /\ exportGroup = << >>

\* The export of the solid with the function of exportUtils.ts.
OrientForExport ==
    /\ exportGroup = << >>
    /\ exportGroup' = << createOrientedObjectForExport(exportObject) >>
    /\ UNCHANGED <<exportObject, uiVars, boxVars, stlVars, batchVars, gridVars, earlierVars>>

\* The export of the solid with the function of part_001.
OrientForExportBaked ==
    /\ exportGroup = << >>
    /\ exportGroup' = << createOrientedObjectForExport_baked(exportObject) >>
    /\ UNCHANGED <<exportObject, uiVars, boxVars, stlVars, batchVars, gridVars, earlierVars>>

-----------------------------------------------------------------------------
(* The STL writers: src/app/utils/exportUtils.ts, lines 138-404.           *)
(*                                                                         *)
(* Coordinates of the meshes handed to the writers are whole numbers of    *)
(* thousandths of a millimetre, so a squared cross-product length of       *)
(* 1e-10 mm^4 is 100 in the model's unit.  A geometry is a record with its *)
(* position attribute (a list of points) and its index (a list of 0-based  *)
(* vertex numbers, or null); matrixWorld is a translation.                 *)

null == << "null" >>

subVectors(a, b) == <<a[1] - b[1], a[2] - b[2], a[3] - b[3]>>
addVectors(a, b) == <<a[1] + b[1], a[2] + b[2], a[3] + b[3]>>
crossVectors(a, b) ==
    <<a[2] * b[3] - a[3] * b[2], a[3] * b[1] - a[1] * b[3], a[1] * b[2] - a[2] * b[1]>>
lengthSq(v) == v[1] * v[1] + v[2] * v[2] + v[3] * v[3]

\* 1e-10 mm^4 in the unit of the model.
DegenerateBelow == 100

\* Lines 230-244: the number of triangles a child adds to the estimate.
countTriangles(child) ==
    IF ~child.isMesh THEN 0
    ELSE IF child.geometry.index # null THEN Len(child.geometry.index) \div 3
    ELSE Len(child.geometry.position) \div 3

\* A triangle reader whose normal is taken with the second edge reversed.
triangleOf_reversed(child, k) ==
    LET position == child.geometry.position
        index    == child.geometry.index
        fetch(i) == IF index # null THEN position[index[i] + 1] ELSE position[i]
        a == addVectors(fetch(3 * k - 2), child.matrixWorld)
        b == addVectors(fetch(3 * k - 1), child.matrixWorld)
        c == addVectors(fetch(3 * k), child.matrixWorld)
    IN  [ normal |-> crossVectors(subVectors(c, b), subVectors(b, a)),
          a |-> a, b |-> b, c |-> c ]

\* Lines 282-337 (and 150-217): the k-th triangle of a mesh, its vertices
\* taken through the index if there is one and moved by matrixWorld, with
\* the vector crossVectors(c - b, a - b) that normalize() scales to the
\* facet normal.
triangleOf(child, k) ==
    LET position == child.geometry.position
        index    == child.geometry.index
        fetch(i) == IF index # null THEN position[index[i] + 1] ELSE position[i]
        a == addVectors(fetch(3 * k - 2), child.matrixWorld)
        b == addVectors(fetch(3 * k - 1), child.matrixWorld)
        c == addVectors(fetch(3 * k), child.matrixWorld)
    IN  [ normal |-> crossVectors(subVectors(c, b), subVectors(a, b)),
          a |-> a, b |-> b, c |-> c ]

\* The triangles of a child in the order the loops visit them.
trianglesOf(child) == [ k \in 1..countTriangles(child) |-> triangleOf(child, k) ]

\* Lines 345-353: whether writeTriangleToSTL returns without writing.
writeTriangleToSTL_skips(t) ==
    LET ab    == subVectors(t.b, t.a)
        ac    == subVectors(t.c, t.a)
        cross == crossVectors(ab, ac)
    IN  lengthSq(cross) < DegenerateBelow

\* Lines 345-375: the records writeTriangleToSTL appends for a list of triangles.
writeTriangleToSTL(ts) == SelectSeq(ts, LAMBDA t : ~writeTriangleToSTL_skips(t))

RECURSIVE traverseCount(_, _)
\* Lines 230-244: the first traversal adds up the triangle counts of the
\* children from the i-th on.
traverseCount(object, i) ==
    IF i > Len(object) THEN 0 ELSE countTriangles(object[i]) + traverseCount(object, i + 1)

RECURSIVE traverseWrite(_, _)
\* Lines 276-339: the second traversal hands every triangle of the children
\* from the i-th on to writeTriangleToSTL.
traverseWrite(object, i) ==
    IF i > Len(object) THEN << >>
    ELSE writeTriangleToSTL(trianglesOf(object[i])) \o traverseWrite(object, i + 1)

RECURSIVE traverseFacets(_, _)
\* Lines 144-219: the traversal of the ASCII writer appends a facet for every
\* triangle of the children from the i-th on.
traverseFacets(object, i) ==
    IF i > Len(object) THEN << >>
    ELSE trianglesOf(object[i]) \o traverseFacets(object, i + 1)

\* Lines 378-404: the offset of the BinaryWriter after each kind of write.
writeFloat32(offset) == offset + 4
writeUint16(offset)  == offset + 2
writeUint32(offset)  == offset + 4

\* A record writer that leaves out the attribute byte count.
writeTriangleToSTL_record_noAttribute(offset) ==
    LET normal == writeFloat32(writeFloat32(writeFloat32(offset)))
        a == writeFloat32(writeFloat32(writeFloat32(normal)))
        b == writeFloat32(writeFloat32(writeFloat32(a)))
    IN  writeFloat32(writeFloat32(writeFloat32(b)))

\* Lines 355-374: the offset after writeTriangleToSTL has written one triangle
\* from the given offset: the normal, the three vertices, the attribute count.
writeTriangleToSTL_record(offset) ==
    LET normal == writeFloat32(writeFloat32(writeFloat32(offset)))
        a == writeFloat32(writeFloat32(writeFloat32(normal)))
        b == writeFloat32(writeFloat32(writeFloat32(a)))
        c == writeFloat32(writeFloat32(writeFloat32(b)))
    IN  writeUint16(c)

RECURSIVE generateBinarySTL_offset(_)
\* Lines 267-269 and 276-339: writer.offset after setOffset(80), the triangle
\* count and n written triangles.
generateBinarySTL_offset(n) ==
    IF n = 0 THEN writeUint32(80)
    ELSE writeTriangleToSTL_record(generateBinarySTL_offset(n - 1))

\* Lines 226-342.  The result is the returned Uint8Array: its length, the
\* uint32 at offset 80 and the 50-byte records after offset 84; bufferSize is
\* the size of the buffer the writer was given.
generateBinarySTL(object) ==
    LET triangles         == traverseCount(object, 1)
        safetyFactor      == 2
        safeTriangleCount == triangles * safetyFactor
        bufferSize        == 84 + 50 * safeTriangleCount
        records           == traverseWrite(object, 1)
        offset            == generateBinarySTL_offset(Len(records))
    IN  [ bufferSize |-> bufferSize,
          count      |-> triangles,       \* writeUint32 of a count below 2^32
          records    |-> records,
          length     |-> offset ]

\* Lines 138-223.  The result is the list of the facets of the text between
\* "solid exported" and "endsolid exported".
generateASCIISTL(object) ==
    [ facets |-> traverseFacets(object, 1) ]

\* Lines 4-10.
exportToSTL(object, binary) ==
    IF binary THEN generateBinarySTL(object) ELSE generateASCIISTL(object)

\* The geometries handed to the writers: a triangle; a triangle and three
\* points on a line; two indexed triangles; an indexed triangle and one with
\* a repeated vertex; a triangle of 4.5e-6 mm^2; no triangle at all.
StlGeometries ==
    { [ index |-> null,
        position |-> << <<0, 0, 0>>, <<100, 0, 0>>, <<0, 100, 0>> >> ],
      [ index |-> null,
        position |-> << <<0, 0, 0>>, <<100, 0, 0>>, <<0, 0, 100>>,
                        <<0, 0, 0>>, <<50, 0, 0>>, <<100, 0, 0>> >> ],
      [ index |-> <<0, 1, 2, 0, 2, 3>>,
        position |-> << <<0, 0, 0>>, <<100, 0, 0>>, <<100, 100, 0>>, <<0, 100, 0>> >> ],
      [ index |-> <<1, 1, 2, 0, 1, 2>>,
        position |-> << <<0, 0, 0>>, <<0, 100, 0>>, <<0, 0, 100>> >> ],
      [ index |-> null,
        position |-> << <<0, 0, 0>>, <<3, 0, 0>>, <<0, 3, 0>> >> ],
      [ index |-> null, position |-> << >> ] }

\* The children traverse visits: meshes, and a group without geometry.
StlChildren ==
    { [ isMesh |-> TRUE, geometry |-> g, matrixWorld |-> m ] :
        g \in StlGeometries, m \in { <<0, 0, 0>>, <<5, 0, -5>> } }
    \cup { [ isMesh |-> FALSE, geometry |-> [index |-> null, position |-> << >>],
             matrixWorld |-> <<0, 0, 0>> ] }

\* The most children an exported object has.
MaxMeshes == 2

StlIdle ==
    /\ stlObject = << >>
    /\ stlBinary = << >>
    /\ stlASCII = << >>

StlInit ==
    /\ \E n \in 1..MaxMeshes : stlObject \in [1..n -> StlChildren]
    /\ stlBinary = << >>
    /\ stlASCII = << >>

\* exportToSTL(object, true).
WriteBinary ==
    /\ stlBinary = << >>
    /\ stlBinary' = << exportToSTL(stlObject, TRUE) >>
    /\ UNCHANGED <<stlObject, stlASCII, uiVars, boxVars, exportVars, batchVars, gridVars, earlierVars>>

\* exportToSTL(object, false).
WriteASCII ==
    /\ stlASCII = << >>
    /\ stlASCII' = << exportToSTL(stlObject, FALSE) >>
    /\ UNCHANGED <<stlObject, stlBinary, uiVars, boxVars, exportVars, batchVars, gridVars, earlierVars>>

-----------------------------------------------------------------------------
(* The batch packager, as spec.md describes it in sections 3 and 4.5: the  *)
(* sources of the repository hold no packager.  A solid is known by the    *)
(* userData createBox attaches to it.                                      *)

\* DimensionSignature: (width, height, depth, borderRadius) rounded to
\* integer mm.
DimensionSignature(solid) ==
    << MathRound(solid.dimensions.width), MathRound(solid.dimensions.height),
       MathRound(solid.dimensions.depth), MathRound(solid.borderRadius) >>

\* A grouping that keeps only the first solid of every signature.
hashAndDedup_firstOnly(solids) ==
    [ signature \in { DimensionSignature(solids[i]) : i \in 1..Len(solids) } |->
          { CHOOSE i \in 1..Len(solids) :
                /\ DimensionSignature(solids[i]) = signature
                /\ \A j \in 1..(i - 1) : DimensionSignature(solids[j]) # signature } ]

\* hashAndDedup(solids) -> Map<signature, solid[]>: for every signature that
\* occurs, the solids (by their place in the list) that carry it.
hashAndDedup(solids) ==
    LET Places(signature) ==
            { i \in 1..Len(solids) : DimensionSignature(solids[i]) = signature }
    IN  [ signature \in { DimensionSignature(solids[i]) : i \in 1..Len(solids) } |->
              Places(signature) ]

\* buildArchive(groups, exporter) -> archive: one STL entry per signature,
\* named by the signature and holding the export of one representative, and
\* a manifest with a line for every solid of every group and a count per
\* signature.
buildArchive(groups, solids) ==
    [ entries  |-> [ signature \in DOMAIN groups |->
                       solids[CHOOSE i \in groups[signature] :
                                  \A j \in groups[signature] : i <= j] ],
      manifest |-> [ lines  |-> UNION { { [solid |-> i, file |-> signature] :
                                            i \in groups[signature] } :
                                        signature \in DOMAIN groups },
                     counts |-> [ signature \in DOMAIN groups |->
                                    Cardinality(groups[signature]) ] ] ]

\* The solids a batch holds: userData of boxes of several grids, some of
\* which differ by less than a millimetre.
BatchPool ==
    { [ dimensions |-> [width |-> w, height |-> R(48), depth |-> w],
        borderRadius |-> r ] :
        w \in {R(48), Q(241, 5), Q(94, 3)}, r \in {R(0), R(1)} }

\* The most solids a batch holds.
MaxSolids == 3

BatchIdle ==
    /\ batchSolids = << >>
    /\ batchArchive = << >>

BatchInit ==
    /\ \E n \in 1..MaxSolids : batchSolids \in [1..n -> BatchPool]
    /\ batchArchive = << >>

\* The batch export of the solids.
PackBatch ==
    /\ batchArchive = << >>
    /\ batchArchive' = << buildArchive(hashAndDedup(batchSolids), batchSolids) >>
    /\ UNCHANGED <<batchSolids, uiVars, boxVars, exportVars, stlVars, gridVars, earlierVars>>

-----------------------------------------------------------------------------
(* One generation of the grid: the boxes of a request, box by box.         *)

\* The requests: the smallest and the default outer sizes, one to sixteen
\* columns, one or two layers, the smallest and the largest buffer, with and
\* without a foot; and, on grids of few cells, the wall thicknesses (whole
\* numbers from 2 up to the maximum published at mount) and the border
\* radii (0 to 30, fractions included) the handlers hand to updateGrid.
GridRequests ==
    [ width : {R(10), R(100)}, length : {R(10), R(100)}, height : {R(50)},
      horizontalDivisions : {R(1), R(2), R(3), R(16)},
      verticalDivisions : {R(1), R(2)}, bufferSize : {R(1), R(20)},
      wallThickness : {R(2)}, borderRadius : {R(1)}, showFoot : BOOLEAN ]
    \cup
    [ width : {R(100)}, length : {R(10), R(100)}, height : {R(50)},
      horizontalDivisions : {R(1), R(2)},
      verticalDivisions : {R(1)}, bufferSize : {R(1), R(20)},
      wallThickness : {R(2), R(3), R(16), R(20), R(33)},
      borderRadius : {R(0), R(1), Q(5, 2), R(19), R(30)}, showFoot : BOOLEAN ]

GridIdle ==
    /\ gridRequest = Mounted.gridSettings
    /\ gridApplied = << >>
    /\ gridBoxes = << >>

GridInit ==
    /\ gridRequest \in GridRequests
    /\ gridApplied = << >>
    /\ gridBoxes = << >>

\* What a generation leaves: the applied settings, and the array that
\* cubesRef.current took (part_000, line 350), box by box.
GridOutcome(st) ==
    /\ gridApplied' = << st.gridSettings >>
    /\ gridBoxes' = createCubesForGrid_boxes(st.cubesRef[1])

\* updateGrid(newSettings) with the request: the settings are resolved
\* first, then the grid is populated from the resolved settings.
RegenerateGrid ==
    /\ gridApplied = << >>
    /\ GridOutcome(updateGrid(Mounted, gridRequest))
    /\ UNCHANGED <<gridRequest, uiVars, boxVars, exportVars, stlVars, batchVars,
                   earlierVars>>

-----------------------------------------------------------------------------
(* The earlier ThreeScene component: src/app/components/ThreeScene.tsx,    *)
(* lines 1837-2261, with createBoxGrid of src/app/utils/cubeUtils.ts.  Its *)
(* settings are the outer size and the divisions only.  The children of    *)
(* its box group are kept as the list of the settings whose boxes are in   *)
(* the group, as for the current component.                                *)

\* parseInt of a field text, for the texts of the model (none is negative).
parseInt(text) == MathFloor(text.v)

\* cubeUtils.ts, lines 205-253: the loop of lines 207-209 empties the group,
\* then one box is added per cell of the grid.
createBoxGrid(children, grid) ==
    [children |-> << grid >>, boxes |-> << grid >>]

\* Lines 228-230 of cubeUtils.ts: the number of boxes one call builds.
createBoxGrid_count(grid) ==
    LoopCount(grid.verticalDivisions) * LoopCount(grid.horizontalDivisions)
        * LoopCount(grid.horizontalDivisions)

\* Lines 1850-1858 and 2031: the state after the first render and the mount
\* effect, which populates the grid from the initial settings.
EarlierMounted ==
    [width |-> R(100), length |-> R(100), height |-> R(50),
     horizontalDivisions |-> R(2), verticalDivisions |-> R(1)]

\* The texts typed into the fields of the earlier component.
EarlierTyped(property) ==
    CASE property = "width"  -> {Num(R(50)), Raw("")}
      [] property = "length" -> {Num(R(200))}
      [] property = "height" -> {Num(R(0)), Num(R(20))}
      [] property = "horizontalDivisions" -> {Num(R(3)), Num(Q(5, 2))}
      [] property = "verticalDivisions" -> {Num(R(2))}

EarlierIdle ==
    /\ earlierSettings = EarlierMounted
    /\ earlierChildren = createBoxGrid(<< >>, EarlierMounted).children
    /\ earlierCubesRef = createBoxGrid(<< >>, EarlierMounted).boxes
    /\ earlierTimers = << >>
    /\ earlierEvents = 0

\* Lines 1907-1925 with updateGrid, lines 1883-1898: handleInputChange.  A
\* value above zero is applied with setGridSettings, and a timeout is set
\* whose callback calls the populateGridCells of this render, which reads
\* the gridSettings of this render (line 1903).
EarlierChange ==
    /\ earlierEvents < MaxEvents
    /\ \E property \in DOMAIN EarlierMounted : \E value \in EarlierTyped(property) :
           IF ~isNaNText(value) /\ Lt(Zero, parseInt(value))
           THEN /\ earlierSettings' = [earlierSettings EXCEPT ![property] = parseInt(value)]
                /\ earlierTimers' = Append(earlierTimers, earlierSettings)
           ELSE UNCHANGED <<earlierSettings, earlierTimers>>
    /\ earlierEvents' = earlierEvents + 1
    /\ UNCHANGED <<earlierChildren, earlierCubesRef,
                   uiVars, boxVars, exportVars, stlVars, batchVars, gridVars>>

\* Lines 1893-1904: the oldest pending callback runs populateGridCells.
EarlierTimeout ==
    /\ earlierTimers # << >>
    /\ earlierChildren' = createBoxGrid(earlierChildren, Head(earlierTimers)).children
    /\ earlierCubesRef' = createBoxGrid(earlierChildren, Head(earlierTimers)).boxes
    /\ earlierTimers' = Tail(earlierTimers)
    /\ UNCHANGED <<earlierSettings, earlierEvents,
                   uiVars, boxVars, exportVars, stlVars, batchVars, gridVars>>

-----------------------------------------------------------------------------
(* Specifications.                                                         *)

\* The component under user events.
Init == UIInit /\ BoxIdle /\ ExportIdle /\ StlIdle /\ BatchIdle /\ GridIdle /\ EarlierIdle
Next == Change \/ Blur \/ ToggleFoot
Spec == Init /\ [][Next]_vars

\* The box builder on its own.
InitBox == UIInit /\ BoxInit /\ ExportIdle /\ StlIdle /\ BatchIdle /\ GridIdle /\ EarlierIdle
NextBox == BuildBox
SpecBox == InitBox /\ [][NextBox]_vars

\* The re-orientation of a solid of the grid for export.
InitExport == UIInit /\ BoxIdle /\ ExportInit /\ StlIdle /\ BatchIdle /\ GridIdle /\ EarlierIdle
NextExport == OrientForExport \/ OrientForExportBaked
SpecExport == InitExport /\ [][NextExport]_vars

\* The STL writers.
InitSTL == UIInit /\ BoxIdle /\ ExportIdle /\ StlInit /\ BatchIdle /\ GridIdle /\ EarlierIdle
NextSTL == WriteBinary \/ WriteASCII
SpecSTL == InitSTL /\ [][NextSTL]_vars

\* One generation of the grid.
InitGrid == UIInit /\ BoxIdle /\ ExportIdle /\ StlIdle /\ BatchIdle /\ GridInit /\ EarlierIdle
NextGrid == RegenerateGrid
SpecGrid == InitGrid /\ [][NextGrid]_vars

\* The earlier component under change events and timeouts.
InitEarlier == Init
NextEarlier == EarlierChange \/ EarlierTimeout
SpecEarlier == InitEarlier /\ [][NextEarlier]_vars

\* The batch packager.
InitBatch == UIInit /\ BoxIdle /\ ExportIdle /\ StlIdle /\ BatchInit /\ GridIdle /\ EarlierIdle
NextBatch == PackBatch
SpecBatch == InitBatch /\ [][NextBatch]_vars

-----------------------------------------------------------------------------
(* Properties of the box builder (SpecBox).                                *)

\* The cap of createBox: min(floor(min(width, depth) / 3), 20).
ThicknessCap(width, depth) == MathMin(MathFloor(Div(MathMin(width, depth), R(3))), R(20))

BoxBuilt == boxOut # << >>
BoxPositive == Lt(Zero, boxArgs.width) /\ Lt(Zero, boxArgs.height) /\ Lt(Zero, boxArgs.depth)

\* C1, as stated: for positive width, height and depth and any wallThickness
\* argument, the thickness the builder uses lies in
\* [2, min(floor(min(width, depth) / 3), 20)].
C1_ThicknessInRange ==
    (BoxBuilt /\ BoxPositive) =>
        /\ Le(R(2), boxOut[1].thickness)
        /\ Le(boxOut[1].thickness, ThicknessCap(boxArgs.width, boxArgs.depth))

\* C1, amended: for positive width, height and depth and any wallThickness
\* argument, the thickness the builder uses is an integer of at most
\* min(floor(min(width, depth) / 3), 20); it is at least 2 when
\* min(width, depth) >= 6, and it is floor(min(width, depth) / 3), below 2,
\* when min(width, depth) < 6.
C1_ThicknessCapped ==
    (BoxBuilt /\ BoxPositive) =>
        /\ IsInteger(boxOut[1].thickness)
        /\ Le(boxOut[1].thickness, ThicknessCap(boxArgs.width, boxArgs.depth))
        /\ Le(R(6), MathMin(boxArgs.width, boxArgs.depth)) => Le(R(2), boxOut[1].thickness)
        /\ Lt(MathMin(boxArgs.width, boxArgs.depth), R(6)) =>
               /\ boxOut[1].thickness = MathFloor(Div(MathMin(boxArgs.width, boxArgs.depth), R(3)))
               /\ Lt(boxOut[1].thickness, R(2))

\* A box 3 mm wide built without a wallThickness argument: the thickness is 1.
C1_NarrowBoxBuilt ==
    /\ BoxBuilt /\ BoxPositive
    /\ boxArgs.wallThickness = undefined
    /\ boxArgs.width = R(3)
    /\ boxOut[1].thickness = R(1)

-----------------------------------------------------------------------------
(* Properties of the component under user events (Spec).                   *)

\* The box width and depth of the applied settings, and the maximum wall
\* thickness and border radius they allow.
AppliedBoxWidth ==
    Sub(Div(gridSettings.width, gridSettings.horizontalDivisions),
        Mul(R(2), gridSettings.bufferSize))
AppliedBoxDepth ==
    Sub(Div(gridSettings.length, gridSettings.horizontalDivisions),
        Mul(R(2), gridSettings.bufferSize))
AppliedMaxWallThickness ==
    MathMin(MathFloor(Div(MathMin(AppliedBoxWidth, AppliedBoxDepth), R(3))), R(20))
AppliedMaxSafeBorderRadius ==
    calculateMaxSafeBorderRadius(AppliedBoxWidth, AppliedBoxDepth, gridSettings.wallThickness)

\* C2, as stated: after any sequence of user events the applied wall
\* thickness is an integer in [2, maxWallThickness], the maximum being
\* min(floor(min(boxWidth, boxDepth) / 3), 20) of the applied settings.
C2_WallThicknessInRange ==
    /\ IsInteger(gridSettings.wallThickness)
    /\ Le(R(2), gridSettings.wallThickness)
    /\ Le(gridSettings.wallThickness, AppliedMaxWallThickness)

\* C2, amended: after any sequence of user events the applied wall thickness
\* is an integer of at most maxWallThickness; it is at least 2 when
\* maxWallThickness >= 2, and it equals maxWallThickness when that is below 2.
C2_WallThicknessCapped ==
    /\ IsInteger(gridSettings.wallThickness)
    /\ Le(gridSettings.wallThickness, AppliedMaxWallThickness)
    /\ Le(R(2), AppliedMaxWallThickness) => Le(R(2), gridSettings.wallThickness)
    /\ Lt(AppliedMaxWallThickness, R(2)) =>
           gridSettings.wallThickness = AppliedMaxWallThickness

\* A thickness of 16 typed for the default grid, then three divisions: the
\* dependent change has brought the thickness down to the new maximum, 10.
C2_ReclampedByDivisions ==
    /\ events = 2
    /\ gridSettings.horizontalDivisions = R(3)
    /\ AppliedMaxWallThickness = R(10)
    /\ gridSettings.wallThickness = R(10)

\* C3: after any sequence of user events the maximum safe border radius of
\* the applied settings is not negative, and the applied border radius lies
\* between 0 and that maximum, which is computed from the applied (already
\* re-clamped) wall thickness.
C3_BorderRadiusInRange ==
    /\ Le(Zero, AppliedMaxSafeBorderRadius)
    /\ Le(Zero, gridSettings.borderRadius)
    /\ Le(gridSettings.borderRadius, AppliedMaxSafeBorderRadius)

\* A radius of 19 typed for the default grid, then a thickness of 16: the
\* radius has come down to the maximum for the new thickness, 5.
C3_ReclampedByThickness ==
    /\ events = 2
    /\ gridSettings.wallThickness = R(16)
    /\ AppliedMaxSafeBorderRadius = R(5)
    /\ gridSettings.borderRadius = R(5)

\* C7, as stated: every call of createCubesForGrid has disposed the geometry
\* of every mesh of every solid it removed, and no geometry of a removed
\* solid is left undisposed after any sequence of rebuilds.
C7_RemovedGeometryDisposed ==
    /\ lastClear.disposed = lastClear.geometries
    /\ ~undisposed

\* C9: after any sequence of user events the applied width, length and
\* height lie in [10, 1000], the buffer in [1, 20], the horizontal divisions
\* are an integer in [1, 16] and the vertical divisions an integer in [1, 6].
C9_SettingsInRange ==
    /\ \A p \in {"width", "length", "height"} :
           Le(R(10), gridSettings[p]) /\ Le(gridSettings[p], R(1000))
    /\ Le(R(1), gridSettings.bufferSize) /\ Le(gridSettings.bufferSize, R(20))
    /\ IsInteger(gridSettings.horizontalDivisions)
    /\ Le(R(1), gridSettings.horizontalDivisions)
    /\ Le(gridSettings.horizontalDivisions, R(16))
    /\ IsInteger(gridSettings.verticalDivisions)
    /\ Le(R(1), gridSettings.verticalDivisions)
    /\ Le(gridSettings.verticalDivisions, R(6))

\* A width of 2000 typed and committed: the applied width is 1000, and the
\* field shows it.
C9_WidthSnappedTo1000 ==
    /\ events = 2
    /\ gridSettings.width = R(1000)
    /\ inputs.width = Num(R(1000))

\* C10, as stated: in every state, a blur of the border-radius field that
\* carries the text 0 applies a border radius of 0 and rebuilds the boxes
\* with it.
C10_ZeroCommitted ==
    LET after == handleInputBlur(State, "borderRadius", Num(Zero))
    IN  /\ after.gridSettings.borderRadius = Zero
        /\ after.cubesRef = << after.gridSettings >>

-----------------------------------------------------------------------------
(* Properties of the export (SpecExport, SpecSTL, SpecBatch).              *)

\* C4, as stated: the triangle count at offset 80 of the binary STL equals
\* the number of 50-byte records in the returned bytes, (length - 84) / 50,
\* also when degenerate triangles were skipped.
C4_CountMatchesRecords ==
    stlBinary # << >> =>
        /\ stlBinary[1].count * 50 = stlBinary[1].length - 84
        /\ stlBinary[1].count = Len(stlBinary[1].records)

\* C5, as stated: after createOrientedObjectForExport the least output Z over
\* the vertices of the export group is 0, and the output Z of every vertex
\* is its world Y in the scene minus the lowest world Y of the solid.
C5_RestsOnZeroPlane ==
    exportGroup # << >> =>
        LET group  == exportGroup[1]
            Places == { <<i, j>> : i \in 1..Len(exportObject.children), j \in 1..8 }
        IN  /\ Least({ ExportVertex(group, p[1], p[2])[3] : p \in Places }) = Zero
            /\ \A p \in Places :
                   ExportVertex(group, p[1], p[2])[3]
                       = Sub(WorldVertex(exportObject, p[1], p[2])[2], bboxMinY(exportObject))

\* The facets of a list, as a set.
FacetSet(ts) == { ts[k] : k \in 1..Len(ts) }

\* C6, as stated: for one object, the facets the ASCII writer emits are
\* exactly the triangles the binary writer emits; a triangle whose squared
\* cross-product length is below 1e-10 is in neither.
C6_SameFacets ==
    (stlBinary # << >> /\ stlASCII # << >>) =>
        /\ FacetSet(stlASCII[1].facets) = FacetSet(stlBinary[1].records)
        /\ \A t \in FacetSet(stlASCII[1].facets) : ~writeTriangleToSTL_skips(t)

RECURSIVE SumOfCounts(_, _)
\* The sum of counts[k] over the keys k in S.
SumOfCounts(counts, S) ==
    IF S = {} THEN 0
    ELSE LET k == CHOOSE k \in S : TRUE
         IN  counts[k] + SumOfCounts(counts, S \ {k})

\* C8: for N solids with K distinct dimension signatures the archive holds
\* exactly K STL entries, one per signature; the manifest names every one of
\* the N solids exactly once, with the file of its signature; and the
\* per-signature counts add up to N.
C8_OneEntryPerSignature ==
    batchArchive # << >> =>
        LET archive    == batchArchive[1]
            N          == Len(batchSolids)
            Signatures == { DimensionSignature(batchSolids[i]) : i \in 1..N }
        IN  /\ DOMAIN archive.entries = Signatures
            /\ \A i \in 1..N :
                   { l.file : l \in { m \in archive.manifest.lines : m.solid = i } }
                       = { DimensionSignature(batchSolids[i]) }
            /\ \A l \in archive.manifest.lines : l.solid \in 1..N
            /\ DOMAIN archive.manifest.counts = Signatures
            /\ SumOfCounts(archive.manifest.counts, Signatures) = N

\* Three solids packaged, two of them 48 mm and 48.2 mm wide: they share a
\* signature, and the archive holds two entries.
C8_ThreeSolidsTwoEntries ==
    /\ batchArchive # << >>
    /\ Len(batchSolids) = 3
    /\ batchSolids[1].dimensions.width = R(48)
    /\ batchSolids[2].dimensions.width = Q(241, 5)
    /\ DimensionSignature(batchSolids[1]) = DimensionSignature(batchSolids[2])
    /\ Cardinality(DOMAIN batchArchive[1].entries) = 2

-----------------------------------------------------------------------------
(* The border radius stays within its 30 mm ceiling.                       *)

\* C11: after any sequence of user edit events the applied border radius
\* (gridSettings.borderRadius) is never above 30: the blur handler limits the
\* raw value to [0, 30] and every other path only lowers it.
C11_BorderRadiusAtMost30 ==
    Le(gridSettings.borderRadius, R(30))

-----------------------------------------------------------------------------
(* What a field shows, against what was typed and what is applied.         *)

\* The minimum the documentation gives for each field.
DocumentedMinimum(property) ==
    CASE property \in {"width", "length", "height"} -> R(10)
      [] property \in {"bufferSize", "horizontalDivisions", "verticalDivisions"} -> R(1)
      [] property = "wallThickness" -> R(2)
      [] property = "borderRadius"  -> Zero

\* Texts parseFloat makes nothing of: the empty field, a lone sign, letters.
InvalidTexts == {Raw(""), Raw("-"), Raw("abc")}

\* C12, as stated: in every state, a blur of a field whose text is empty,
\* "-" or not a number leaves the field showing the documented minimum of
\* that field (10 for width, length and height, 1 for the buffer and the
\* divisions, 2 for the wall thickness, 0 for the border radius), and the
\* applied setting of that field has the same value.
C12_InvalidTextRevertsToMinimum ==
    \A property \in Fields : \A text \in InvalidTexts :
        LET after == handleInputBlur(State, property, text)
        IN  /\ after.inputs[property] = toString(DocumentedMinimum(property))
            /\ after.gridSettings[property] = DocumentedMinimum(property)

\* C13, as stated: in every state, a change event on any field, the wall
\* thickness and the border radius included, leaves the field showing the
\* text exactly as it was typed.
C13_TextKeptAsTyped ==
    \A property \in Fields : \A text \in Typed(property) :
        handleInputChange(State, property, text).inputs[property] = text

\* C14, as stated: in every state from the mount on, the published maximum
\* wall thickness is min(floor(min(boxWidth, boxDepth) / 3), 20) of the
\* applied settings.
C14_PublishedMaximumIsCellMaximum ==
    maxWallThickness = AppliedMaxWallThickness

-----------------------------------------------------------------------------
(* Properties of one generation of the grid (SpecGrid).                    *)

GridPopulated == gridApplied # << >>

\* The columns (along X and along Z) and the layers (along Y) of the grid
\* the boxes were built from.
GridColumns == LoopCount(gridApplied[1].horizontalDivisions)
GridLayers  == LoopCount(gridApplied[1].verticalDivisions)

\* The centre of column x along X, and of row z along Z: the grid spans
\* [-width/2, width/2] by [-length/2, length/2] and each cell is
\* width/H by length/H.
CellCentreX(x) ==
    Add(Neg(Half(gridApplied[1].width)),
        Mul(Q(2 * x + 1, 2),
            Div(gridApplied[1].width, gridApplied[1].horizontalDivisions)))
CellCentreZ(z) ==
    Add(Neg(Half(gridApplied[1].length)),
        Mul(Q(2 * z + 1, 2),
            Div(gridApplied[1].length, gridApplied[1].horizontalDivisions)))

\* C15: for settings with H >= 1 columns and V >= 1 layers the populator
\* returns exactly H * V * H solids, at pairwise distinct positions, and
\* over the centre (in X and Z) of each of the H * H columns of cells stand
\* exactly V of them: one solid per cell, centred in its cell in X and Z.
C15_OneBoxPerCell ==
    GridPopulated =>
        /\ Len(gridBoxes) = GridColumns * GridLayers * GridColumns
        /\ \A i \in 1 .. Len(gridBoxes) : \A j \in 1 .. Len(gridBoxes) :
               i # j => gridBoxes[i].position # gridBoxes[j].position
        /\ \A x \in 0 .. GridColumns - 1 : \A z \in 0 .. GridColumns - 1 :
               Cardinality({ i \in 1 .. Len(gridBoxes) :
                               /\ gridBoxes[i].position[1] = CellCentreX(x)
                               /\ gridBoxes[i].position[3] = CellCentreZ(z) })
                   = GridLayers

\* A grid of 16 by 2 by 16 cells has been populated with its 512 solids.
C15_SixteenByTwoBySixteen ==
    /\ GridPopulated
    /\ gridApplied[1].horizontalDivisions = R(16)
    /\ gridApplied[1].verticalDivisions = R(2)
    /\ Len(gridBoxes) = 512

\* The scenario of the default settings: 100 by 100 by 50, two columns, one
\* layer, buffer 1, wall 2, radius 1, no foot.
DefaultScenario ==
    /\ GridPopulated
    /\ gridRequest = Mounted.gridSettings

\* Every solid of the generation has the recorded dimensions, the wall
\* thickness 2, the border radius 1 and the rounded body of two extrusions.
ScenarioSolids(width, height, depth) ==
    \A i \in 1 .. Len(gridBoxes) :
        /\ gridBoxes[i].userData.dimensions =
               [width |-> width, height |-> height, depth |-> depth]
        /\ gridBoxes[i].thickness = R(2)
        /\ gridBoxes[i].userData.borderRadius = R(1)
        /\ Len(gridBoxes[i].children) = 2
        /\ \A m \in 1 .. 2 : gridBoxes[i].children[m].kind = "Extrude"

\* C16, as stated: the default scenario yields 4 solids, each with recorded
\* dimensions width 49, height 50, depth 49, wall thickness 2, border
\* radius 1, built on the rounded path with 2 meshes.
C16_ScenarioAsStated ==
    DefaultScenario =>
        Len(gridBoxes) = 4 /\ ScenarioSolids(R(49), R(50), R(49))

\* C16, amended: the default scenario yields 4 solids, each with recorded
\* dimensions width 48, height 48, depth 48 (the 50 mm cell less the 1 mm
\* buffer on both sides of every axis), wall thickness 2, border radius 1,
\* built on the rounded path with 2 meshes.
C16_ScenarioFortyEight ==
    DefaultScenario =>
        Len(gridBoxes) = 4 /\ ScenarioSolids(R(48), R(48), R(48))

\* The default scenario has been generated.
C16_DefaultGenerated ==
    /\ DefaultScenario
    /\ gridApplied[1] = Mounted.gridSettings
    /\ Len(gridBoxes) = 4

\* C20, as stated: the generation for width 10, length 10, 16 horizontal
\* divisions and buffer 20 gives solids whose resolved wall thickness is not
\* negative and whose meshes have no negative extent on any axis.
C20_BoundaryGridIsSolid ==
    ( /\ GridPopulated
      /\ gridRequest.width = R(10) /\ gridRequest.length = R(10)
      /\ gridRequest.horizontalDivisions = R(16)
      /\ gridRequest.bufferSize = R(20) )
    => \A i \in 1 .. Len(gridBoxes) :
           /\ Le(Zero, gridBoxes[i].thickness)
           /\ \A m \in 1 .. Len(gridBoxes[i].children) : \A axis \in 1 .. 3 :
                  Le(gridBoxes[i].children[m].lo[axis], gridBoxes[i].children[m].hi[axis])

-----------------------------------------------------------------------------
(* Properties of the built solid: topology, foot and colour (SpecBox).     *)

\* The meshes of the built solid that make its body, and those of its foot.
BodyMeshes == { i \in 1 .. Len(boxOut[1].children) : boxOut[1].children[i].name # "foot" }
FootMeshes == { i \in 1 .. Len(boxOut[1].children) : boxOut[1].children[i].name = "foot" }

\* The radius the builder uses: the requested one, capped at 0.9 times half
\* the smaller of width and depth.
BuiltEffectiveRadius ==
    MathMin(boxArgs.borderRadius,
            Mul(Q(9, 10), Half(MathMin(boxArgs.width, boxArgs.depth))))

\* The foot's height, width and depth for the thickness the builder used.
BuiltFootHeight == Mul(Q(3, 2), boxOut[1].thickness)
BuiltFootWidth  == Sub(Sub(boxArgs.width, Mul(R(2), boxOut[1].thickness)), R(1))
BuiltFootDepth  == Sub(Sub(boxArgs.depth, Mul(R(2), boxOut[1].thickness)), R(1))

\* C17: a solid built with an effective radius of 0 or less has a body of
\* exactly 5 box meshes (bottom and four walls); one built with an effective
\* radius above 0 has a body of exactly 2 extruded meshes (floor and wall
\* ring); and the solid has exactly one more mesh, the foot, if showFoot is
\* set and the foot height is above 0, and no other mesh otherwise.
C17_TopologyByRadius ==
    BoxBuilt =>
        /\ Le(BuiltEffectiveRadius, Zero) =>
               /\ Cardinality(BodyMeshes) = 5
               /\ \A i \in BodyMeshes : boxOut[1].children[i].kind = "Box"
        /\ Lt(Zero, BuiltEffectiveRadius) =>
               /\ Cardinality(BodyMeshes) = 2
               /\ \A i \in BodyMeshes : boxOut[1].children[i].kind = "Extrude"
        /\ Cardinality(FootMeshes) =
               IF boxArgs.showFoot /\ Lt(Zero, BuiltFootHeight) THEN 1 ELSE 0
        /\ Len(boxOut[1].children) = Cardinality(BodyMeshes) + Cardinality(FootMeshes)

\* A rounded solid with a foot has been built: three meshes.
C17_RoundedWithFoot ==
    /\ BoxBuilt
    /\ Lt(Zero, BuiltEffectiveRadius)
    /\ boxArgs.showFoot
    /\ Len(boxOut[1].children) = 3

C19_ColourFlag ==
    BoxBuilt =>
        LET invalid ==
                \/ \E side \in {boxArgs.width, boxArgs.height, boxArgs.depth} :
                       Lt(R(200), side)
                \/ Lt(boxOut[1].thickness, R(2))
                \/ Lt(MathMin(Div(MathMin(boxArgs.width, boxArgs.depth), R(3)), R(20)),
                      boxOut[1].thickness)
        IN  /\ boxOut[1].color = IF invalid THEN "red" ELSE "green"
            /\ Cardinality(BodyMeshes) >= 2

\* A solid wider than the printer bed has been built, flagged red.
C19_OversizeBuiltRed ==
    /\ BoxBuilt
    /\ Lt(R(200), boxArgs.width)
    /\ boxOut[1].color = "red"
    /\ Cardinality(BodyMeshes) >= 2

-----------------------------------------------------------------------------
(* The cavity and the profiles of the built solid (SpecBox).               *)

\* C21: for width and depth above zero and any requested wall thickness,
\* with t the thickness the builder resolved, width - 2t and depth - 2t are
\* above zero, and a solid built on the rounded path has its inner hole.
C21_CavityStaysOpen ==
    (BoxBuilt /\ BoxPositive) =>
        /\ Lt(Zero, Sub(boxArgs.width, Mul(R(2), boxOut[1].thickness)))
        /\ Lt(Zero, Sub(boxArgs.depth, Mul(R(2), boxOut[1].thickness)))
        /\ Lt(Zero, BuiltEffectiveRadius) =>
               /\ Len(boxOut[1].shapes) = 1
               /\ Len(boxOut[1].shapes[1].holes) = 1

\* A 7 mm wide rounded solid was asked for 45 mm walls and built with 2 mm
\* walls around a 3 mm cavity.
C21_ThickWallsNarrowBox ==
    /\ BoxBuilt
    /\ boxArgs.width = R(7)
    /\ boxArgs.wallThickness = R(45)
    /\ Lt(Zero, BuiltEffectiveRadius)
    /\ Len(boxOut[1].shapes[1].holes) = 1
    /\ boxOut[1].shapes[1].holes[1].width = R(3)

-----------------------------------------------------------------------------
(* The builder against the resolver, on the applied settings (Spec).       *)

\* The box the populator builds for the first cell of the applied settings;
\* the boxes of the other cells differ from it in position only.
AppliedBox == createCubesForGrid_box(gridSettings, 0, 0, 0)

\* C22, as stated: in every state with showFoot set, the Y offset the
\* populator adds to the cell centre in the position of a box is half the
\* height of the foot createBox builds for that box, 1.5 times the
\* thickness the builder resolved.
C22_OffsetIsHalfFootHeight ==
    gridSettings.showFoot =>
        Sub(AppliedBox.position[2],
            Half(Div(gridSettings.height, gridSettings.verticalDivisions)))
            = Half(Mul(Q(3, 2), AppliedBox.thickness))

\* C26, as stated: in every state, with or without a foot, the thickness
\* createBox resolves for a box of the grid is the applied wall thickness,
\* and the effective radius it uses is the applied border radius, the value
\* it records in userData.borderRadius.
C26_BuilderClampsAreNoOps ==
    /\ AppliedBox.thickness = gridSettings.wallThickness
    /\ AppliedBox.effectiveRadius = gridSettings.borderRadius
    /\ AppliedBox.userData.borderRadius = gridSettings.borderRadius

\* The Y coordinates, in the frame of the solid, of the corners of a mesh.
LocalY(mesh) ==
    { applyMatrix4(Corners(mesh)[j], updateMatrix(mesh))[2] : j \in 1 .. 8 }

Greatest(S) == CHOOSE a \in S : \A b \in S : Le(b, a)

\* The floor and the wall ring of a solid built on the rounded path.
BuiltFloor == boxOut[1].children[CHOOSE i \in BodyMeshes : boxOut[1].children[i].name = "floor"]
BuiltWalls == boxOut[1].children[CHOOSE i \in BodyMeshes : boxOut[1].children[i].name = "walls"]

\* The solid is built on the rounded path with 0 < thickness < height.
RoundedAndStacked ==
    /\ BoxBuilt
    /\ Lt(Zero, BuiltEffectiveRadius)
    /\ Lt(Zero, boxOut[1].thickness)
    /\ Lt(boxOut[1].thickness, boxArgs.height)

\* C25: on the rounded path, for height > t > 0, the floor extrusion spans
\* local Y from -height/2 to -height/2 + t and the wall extrusion from
\* -height/2 + t to height/2: they meet at one plane, without gap or
\* overlap, and together span exactly the height.
C25_WallsStackedOnFloor ==
    RoundedAndStacked =>
        LET base == Neg(Half(boxArgs.height))
            seam == Add(Neg(Half(boxArgs.height)), boxOut[1].thickness)
            top  == Half(boxArgs.height)
        IN  /\ Least(LocalY(BuiltFloor)) = base
            /\ Greatest(LocalY(BuiltFloor)) = seam
            /\ Least(LocalY(BuiltWalls)) = seam
            /\ Greatest(LocalY(BuiltWalls)) = top
            /\ Sub(Greatest(LocalY(BuiltWalls)), Least(LocalY(BuiltFloor))) = boxArgs.height

\* A rounded solid 50 mm high with 3 mm walls has been built: the floor and
\* the wall ring meet 22 mm below the centre.
C25_SeamAtMinus22 ==
    /\ RoundedAndStacked
    /\ boxArgs.height = R(50)
    /\ boxOut[1].thickness = R(3)
    /\ Greatest(LocalY(BuiltFloor)) = R(-22)

C30_ProfilesWellFormed ==
    (BoxBuilt /\ BoxPositive /\ Lt(Zero, boxArgs.borderRadius)) =>
        /\ Len(boxOut[1].shapes) = 1
        /\ LET outer == boxOut[1].shapes[1]
                innerWidth == Sub(boxArgs.width, Mul(R(2), boxOut[1].thickness))
                innerDepth == Sub(boxArgs.depth, Mul(R(2), boxOut[1].thickness))
           IN  /\ outer.radius = boxOut[1].effectiveRadius
               /\ Lt(Zero, Sub(boxArgs.width, Mul(R(2), outer.radius)))
               /\ Lt(Zero, Sub(boxArgs.depth, Mul(R(2), outer.radius)))
               /\ \A h \in 1 .. Len(outer.holes) :
                      /\ outer.holes[h].radius =
                             Mul(Mul(Q(9, 10), outer.radius),
                                 MathMin(Div(innerWidth, boxArgs.width),
                                         Div(innerDepth, boxArgs.depth)))
                      /\ Le(Zero, outer.holes[h].radius)
                      /\ Le(outer.holes[h].radius, outer.radius)
                      /\ Le(Mul(R(2), outer.holes[h].radius),
                            MathMin(innerWidth, innerDepth))

\* A 7 mm by 201 mm solid asked for a 30 mm radius: the outer corners have
\* 3.15 mm and the hole's corners 1.215 mm.
C30_NarrowRoundedBuilt ==
    /\ BoxBuilt
    /\ boxArgs.width = R(7) /\ boxArgs.depth = R(201)
    /\ boxArgs.borderRadius = R(30)
    /\ boxOut[1].shapes[1].radius = Q(315, 100)
    /\ Len(boxOut[1].shapes[1].holes) = 1
    /\ boxOut[1].shapes[1].holes[1].radius = Q(1215, 1000)

-----------------------------------------------------------------------------
(* The binary writer's buffer and the facet normal (SpecSTL).              *)

\* C23: the writer never goes past the buffer it allocated, of
\* 84 + 50 * ceil(2 * estimate) bytes; the offset is 84 before the first
\* triangle and every written triangle advances it by exactly 50; and the
\* returned array has exactly 84 + 50 * (triangles written) bytes.
C23_WritesStayInBuffer ==
    stlBinary # << >> =>
        /\ stlBinary[1].bufferSize = 84 + 50 * (2 * stlBinary[1].count)
        /\ \A n \in 0 .. Len(stlBinary[1].records) :
               /\ generateBinarySTL_offset(n) = 84 + 50 * n
               /\ generateBinarySTL_offset(n) <= stlBinary[1].bufferSize
        /\ stlBinary[1].length = 84 + 50 * Len(stlBinary[1].records)

\* Three triangles were counted, one of them was skipped: 184 bytes are
\* returned out of a buffer of 384.
C23_TwoOfThreeWritten ==
    /\ stlBinary # << >>
    /\ stlBinary[1].count = 3
    /\ Len(stlBinary[1].records) = 2
    /\ stlBinary[1].length = 184
    /\ stlBinary[1].bufferSize = 384

\* C28: for every triangle handed to the writer, the vector the normal is
\* made of, cross(c - b, a - b), is the vector the skip test measures,
\* cross(b - a, c - a); so a triangle is skipped exactly when that vector is
\* shorter than the threshold, and every written triangle has a normal
\* vector that is not zero.
C28_SkipTestMeasuresTheNormal ==
    /\ \A i \in 1 .. Len(stlObject) : \A k \in 1 .. countTriangles(stlObject[i]) :
           LET t == triangleOf(stlObject[i], k)
           IN  /\ t.normal = crossVectors(subVectors(t.b, t.a), subVectors(t.c, t.a))
               /\ writeTriangleToSTL_skips(t) <=> lengthSq(t.normal) < DegenerateBelow
    /\ stlBinary # << >> =>
           \A r \in 1 .. Len(stlBinary[1].records) :
               stlBinary[1].records[r].normal # <<0, 0, 0>>

\* A mesh of one proper triangle and one of three points on a line has been
\* written: one record, with the normal vector (0, -10000, 0).
C28_ProperWrittenFlatSkipped ==
    /\ stlBinary # << >>
    /\ stlBinary[1].count = 2
    /\ Len(stlBinary[1].records) = 1
    /\ stlBinary[1].records[1].normal = <<0, -10000, 0>>

-----------------------------------------------------------------------------
(* The resolution of updateGrid as a function of the request (SpecGrid).   *)

\* The maximum wall thickness of the cells of the request.
RequestMaxWallThickness ==
    MathMin(MathFloor(Div(MathMin(
                Sub(Div(gridRequest.width, gridRequest.horizontalDivisions),
                    Mul(R(2), gridRequest.bufferSize)),
                Sub(Div(gridRequest.length, gridRequest.horizontalDivisions),
                    Mul(R(2), gridRequest.bufferSize))), R(3))), R(20))

\* C27: the settings updateGrid applies for a request are a fixed point of
\* updateGrid; they have the request's width, length, height, divisions,
\* buffer and showFoot; their border radius is not above the request's; and
\* their wall thickness is the request's whenever that is a whole number
\* between 2 and the maximum wall thickness of the cells.
C27_ResolutionIsIdempotent ==
    GridPopulated =>
        /\ updateGrid(Mounted, gridApplied[1]).gridSettings = gridApplied[1]
        /\ \A field \in {"width", "length", "height", "horizontalDivisions",
                          "verticalDivisions", "bufferSize", "showFoot"} :
               gridApplied[1][field] = gridRequest[field]
        /\ Le(gridApplied[1].borderRadius, gridRequest.borderRadius)
        /\ ( /\ IsInteger(gridRequest.wallThickness)
             /\ Le(R(2), gridRequest.wallThickness)
             /\ Le(gridRequest.wallThickness, RequestMaxWallThickness) )
           => gridApplied[1].wallThickness = gridRequest.wallThickness

\* A request for 33 mm walls and a 30 mm radius on 48 mm cells was resolved
\* to 16 mm walls and a 5 mm radius.
C27_ThirtyThreeResolvedToSixteen ==
    /\ GridPopulated
    /\ gridRequest.wallThickness = R(33) /\ gridRequest.borderRadius = R(30)
    /\ gridApplied[1].wallThickness = R(16) /\ gridApplied[1].borderRadius = R(5)

-----------------------------------------------------------------------------
(* One generation of solids in the scene (Spec and SpecEarlier).           *)

\* The current component: the box group holds the solids of one populate
\* call, built from the applied settings, and cubesRef tracks the same.
OneGenerationInScene ==
    /\ cubeChildren = << gridSettings >>
    /\ cubesRef = << gridSettings >>

\* C24, as stated, for the earlier component: once the pending callbacks
\* have run, the children of the box group are the solids of one populate
\* call, built from the settings applied last (their number is
\* horizontalDivisions^2 * verticalDivisions of those settings), and
\* cubesRef tracks the same solids.
C24_OneGenerationFromLatestSettings ==
    earlierTimers = << >> =>
        /\ Len(earlierChildren) = 1
        /\ createBoxGrid_count(earlierChildren[1]) = createBoxGrid_count(earlierSettings)
        /\ earlierChildren = << earlierSettings >>
        /\ earlierCubesRef = earlierChildren

=============================================================================
